---- MODULE Spec2Model ----
(***************************************************************************)
(* Model of capnp-wrapper-gen (src/main.py): the Parser that resolves a    *)
(* Cap'n Proto schema into the `nodes` mapping, the Generator that turns   *)
(* `nodes` into wrapper source text, and the behaviour of the generated    *)
(* enum accessors (Get/Set/Has) over the base accessor's raw value.        *)
(*                                                                         *)
(* Conventions.                                                            *)
(*  - A Python dict is a sequence of [key, value] entries in insertion     *)
(*    order (DictSet keeps the position of an existing key).               *)
(*  - A field or enumerant name is [head, tail]: its first character and   *)
(*    the rest, which is all that cap() looks at.                          *)
(*  - A text is the sequence of its lines ("" is the one empty line), so   *)
(*    string concatenation joins the last line of the left operand with    *)
(*    the first line of the right one.                                     *)
(***************************************************************************)
EXTENDS Integers, Sequences, FiniteSets, TLC

VARIABLES
    pc,          \* position of main(): parse, failed, init, generate, print, done;
                 \* wrapper while the generated accessors run
    schema,      \* the modules of schema.__dict__ iterated so far, in order
    struct_ids,  \* Parser.struct_ids : struct id -> struct name
    enum_ids,    \* Parser.enum_ids   : enum id -> enum name
    nodes,       \* Parser.nodes      : node name -> fields | enumerants
    gen,         \* the Generator object (enum_names, struct_names)
    text,        \* result of the latest Generator.generate call
    prevText,    \* result of the generate call before it
    runs,        \* number of Generator.generate calls made
    stdout,      \* what print() has written
    wEnum,       \* wrapper run: the schema enumerants of the field's enum
    raw,         \* wrapper run: value held by the base accessor get<Field>()
    lastSet,     \* wrapper run: argument of the Set<Field> that stored raw
    got,         \* wrapper run: result of the latest Get<Field>()
    hasRes       \* wrapper run: result of the latest Has<Field>()

parserVars == <<pc, schema, struct_ids, enum_ids, nodes, gen, text, prevText, runs, stdout>>
wrapperVars == <<wEnum, raw, lastSet, got, hasRes>>
vars == <<pc, schema, struct_ids, enum_ids, nodes, gen, text, prevText, runs, stdout,
          wEnum, raw, lastSet, got, hasRes>>

(***************************************************************************)
(* Bounds of the model.                                                    *)
(***************************************************************************)
MaxDefs == 2         \* top-level definitions in a schema file
MaxFields == 2       \* fields declared in a schema file, all structs together
MaxEnumerants == 3   \* enumerants of an enum
MaxRuns == 2         \* calls of Generator.generate on one Generator
MaxRaw == 3          \* largest raw value the base accessor is made to hold

(***************************************************************************)
(* Constants of the program.                                               *)
(***************************************************************************)
BASE_NAMESPACE == "NKikimrCapnProto_"

CAPNP_BASIC_TYPES ==
    [void |-> "void", bool |-> "bool",
     int8 |-> "int8_t", int16 |-> "int16_t", int32 |-> "int32_t", int64 |-> "int64_t",
     uint8 |-> "uint8_t", uint16 |-> "uint16_t", uint32 |-> "uint32_t", uint64 |-> "uint64_t",
     float32 |-> "float", float64 |-> "double",
     text |-> "std::string", data |-> "std::string"]

(***************************************************************************)
(* Names: cap() and low().                                                 *)
(***************************************************************************)
LowerChars == <<"a", "b", "c", "d", "e", "f", "g", "h", "i", "j", "k", "l", "m",
                "n", "o", "p", "q", "r", "s", "t", "u", "v", "w", "x", "y", "z">>
UpperChars == <<"A", "B", "C", "D", "E", "F", "G", "H", "I", "J", "K", "L", "M",
                "N", "O", "P", "Q", "R", "S", "T", "U", "V", "W", "X", "Y", "Z">>

\* str.upper() of one character
upper(c) ==
    IF \E i \in 1..Len(LowerChars) : LowerChars[i] = c
    THEN UpperChars[CHOOSE i \in 1..Len(LowerChars) : LowerChars[i] = c]
    ELSE c

\* str.lower() of one character
lower(c) ==
    IF \E i \in 1..Len(UpperChars) : UpperChars[i] = c
    THEN LowerChars[CHOOSE i \in 1..Len(UpperChars) : UpperChars[i] = c]
    ELSE c

cap(s) == [head |-> upper(s.head), tail |-> s.tail]

low(s) == [head |-> lower(s.head), tail |-> s.tail]

\* the Python string of a name
Str(s) == s.head \o s.tail

(***************************************************************************)
(* Python dicts.                                                           *)
(***************************************************************************)
DictKeys(d) == [i \in 1..Len(d) |-> d[i].key]

DictHas(d, k) == \E i \in 1..Len(d) : d[i].key = k

DictGet(d, k) == d[CHOOSE i \in 1..Len(d) : d[i].key = k].value

DictSet(d, k, v) ==
    IF DictHas(d, k)
    THEN [i \in 1..Len(d) |-> IF d[i].key = k THEN [key |-> k, value |-> v] ELSE d[i]]
    ELSE Append(d, [key |-> k, value |-> v])

(***************************************************************************)
(* The schema reflection API: what capnp.load exposes of a schema file.    *)
(***************************************************************************)
\* the types a schema file of the model can declare at top level
TopLevelTypes ==
    { [id |-> 1, kind |-> "struct", name |-> "Point"],
      [id |-> 2, kind |-> "struct", name |-> "Line"],
      [id |-> 3, kind |-> "enum", name |-> "Color"] }

\* A type that a field refers to and the iteration never reaches stands for
\* a type that is not in schema.__dict__ (nested in a struct, or imported).
TypeIdsOf(kind) == { t.id : t \in { u \in TopLevelTypes : u.kind = kind } }

PrimitiveKinds == {"int32"}

FieldNameSeq ==
    << [head |-> "c", tail |-> "ount"],
       [head |-> "k", tail |-> "ind"],
       [head |-> "i", tail |-> "tems"] >>

EnumerantNameSeq ==
    << [head |-> "n", tail |-> "otSet"],
       [head |-> "r", tail |-> "ed"],
       [head |-> "b", tail |-> "lue"],
       [head |-> "g", tail |-> "reen"] >>

\* field.proto.slot.type of a field: which(), the referenced typeId (0 when
\* the type refers to none), and for a list its elementType
SlotTypes ==
    { [which |-> k, typeId |-> 0, elemWhich |-> "", elemTypeId |-> 0] :
          k \in PrimitiveKinds }
    \cup { [which |-> "struct", typeId |-> i, elemWhich |-> "", elemTypeId |-> 0] :
          i \in TypeIdsOf("struct") }
    \cup { [which |-> "enum", typeId |-> i, elemWhich |-> "", elemTypeId |-> 0] :
          i \in TypeIdsOf("enum") }
    \cup { [which |-> "list", typeId |-> 0, elemWhich |-> k, elemTypeId |-> 0] :
          k \in PrimitiveKinds }
    \cup { [which |-> "list", typeId |-> 0, elemWhich |-> "struct", elemTypeId |-> i] :
          i \in TypeIdsOf("struct") }
    \cup { [which |-> "list", typeId |-> 0, elemWhich |-> "enum", elemTypeId |-> i] :
          i \in TypeIdsOf("enum") }

\* module.schema.fields of a struct: up to `room` fields, named in order
FieldLists(room) ==
    UNION { { [i \in 1..n |-> [name |-> FieldNameSeq[i], type |-> ts[i]]] :
                  ts \in [1..n -> SlotTypes] } :
            n \in 0..(IF room < Len(FieldNameSeq) THEN room ELSE Len(FieldNameSeq)) }

RECURSIVE FieldCount(_)
FieldCount(modules) ==
    IF modules = <<>> THEN 0 ELSE Len(Head(modules).fields) + FieldCount(Tail(modules))

EnumerantCount == IF MaxEnumerants < Len(EnumerantNameSeq) THEN MaxEnumerants ELSE Len(EnumerantNameSeq)

\* module.schema.enumerants of an enum of a schema file: 1..MaxEnumerants
\* enumerants, named in order
DeclaredEnumerantLists == { SubSeq(EnumerantNameSeq, 1, n) : n \in 1..EnumerantCount }

\* module.schema.enumerants in any order of declaration: 1..MaxEnumerants
\* distinct names
EnumerantLists ==
    UNION { { es \in [1..n -> { EnumerantNameSeq[k] : k \in 1..EnumerantCount }] :
                  \A i, j \in 1..n : es[i] = es[j] => i = j } :
            n \in 1..EnumerantCount }

StructModules(t, room) ==
    { [kind |-> "struct", id |-> t.id, name |-> t.name, fields |-> fs, enumerants |-> <<>>] :
          fs \in FieldLists(room) }

EnumModules(t) ==
    { [kind |-> "enum", id |-> t.id, name |-> t.name, fields |-> <<>>, enumerants |-> es] :
          es \in DeclaredEnumerantLists }

\* the top-level types the iteration over schema.__dict__ has not yet reached
Undeclared == { t \in TopLevelTypes : \A i \in 1..Len(schema) : schema[i].id /= t.id }

(***************************************************************************)
(* Parser.                                                                 *)
(***************************************************************************)
FieldsContent(fields) == [tag |-> "dict", fields |-> fields, enumerants |-> <<>>]

EnumerantsContent(enumerants) == [tag |-> "list", fields |-> <<>>, enumerants |-> enumerants]

\* the outcome of an expression that can raise KeyError
Ok(v) == [raised |-> FALSE, value |-> v]
Raised == [raised |-> TRUE, value |-> ""]

\* d[k] of a dict
Subscript(d, k) == IF k \in DOMAIN d THEN Ok(d[k]) ELSE Raised

\* a get_list_type that keeps the kind tag of a struct element too
get_list_type_unresolved(type, sids) == Ok(type.elemWhich)

\* Parser.get_list_type
get_list_type(type, sids) ==
    IF type.elemWhich = "struct"
    THEN Subscript(sids, type.elemTypeId)
    ELSE Ok(type.elemWhich)

\* a resolution that keeps the kind tag of an enum-typed field
ResolveField_enum_tag(type, sids, eids) ==
    CASE type.which = "struct" -> Subscript(sids, type.typeId)
      [] type.which = "list" ->
            LET e == get_list_type(type, sids)
            IN IF e.raised THEN Raised ELSE Ok("List(" \o e.value \o ")")
      [] OTHER -> Ok(type.which)

\* a resolution that leaves out the List(...) around the element
ResolveField_bare_list(type, sids, eids) ==
    CASE type.which = "struct" -> Subscript(sids, type.typeId)
      [] type.which = "enum" -> Subscript(eids, type.typeId)
      [] type.which = "list" -> get_list_type(type, sids)
      [] OTHER -> Ok(type.which)

\* the body of the loop of Parser.parse_struct: the resolved type of a field
ResolveField(type, sids, eids) ==
    CASE type.which = "struct" -> Subscript(sids, type.typeId)
      [] type.which = "enum" -> Subscript(eids, type.typeId)
      [] type.which = "list" ->
            LET e == get_list_type(type, sids)
            IN IF e.raised THEN Raised ELSE Ok("List(" \o e.value \o ")")
      [] OTHER -> Ok(type.which)

\* Parser.parse_struct: the loop over fields.items(), res the map so far
RECURSIVE FieldsDict(_, _, _, _)
FieldsDict(fields, sids, eids, res) ==
    IF fields = <<>>
    THEN Ok(res)
    ELSE LET type_ == ResolveField(Head(fields).type, sids, eids)
         IN IF type_.raised
            THEN Raised
            ELSE FieldsDict(Tail(fields), sids, eids,
                            DictSet(res, Str(cap(Head(fields).name)), type_.value))

\* Parser.parse_struct: the field map, unless a lookup raised
parse_struct(fields, sids, eids) == FieldsDict(fields, sids, eids, <<>>)

\* the enumerants without the [1:]
parse_enumerants_keep_first(enumerants) ==
    [i \in 1..Len(enumerants) |-> Str(cap(enumerants[i]))]

\* [cap(enumerant) for enumerant in module.schema.enumerants.keys()][1:]
parse_enumerants(enumerants) ==
    Tail([i \in 1..Len(enumerants) |-> Str(cap(enumerants[i]))])

\* struct_ids when the struct is not registered ahead of its fields
StructIdsFor_late(m, sids) == sids

\* struct_ids as it is when the fields of a struct module are resolved
StructIdsFor(m, sids) == [i \in DOMAIN sids \cup {m.id} |-> IF i = m.id THEN m.name ELSE sids[i]]

\* Parser.parse, one iteration of the loop over a _StructModule
ParseStruct ==
    /\ pc = "parse"
    /\ Len(schema) < MaxDefs
    /\ \E t \in { u \in Undeclared : u.kind = "struct" } : \E m \in StructModules(t, MaxFields - FieldCount(schema)) :
          LET sids == StructIdsFor(m, struct_ids)
              res == parse_struct(m.fields, sids, enum_ids)
          IN /\ schema' = Append(schema, m)
             /\ struct_ids' = sids
             /\ IF res.raised
                THEN pc' = "failed" /\ nodes' = nodes
                ELSE pc' = pc /\ nodes' = DictSet(nodes, m.name, FieldsContent(res.value))
    /\ UNCHANGED <<enum_ids, gen, text, prevText, runs, stdout>>
    /\ UNCHANGED wrapperVars

\* Parser.parse, one iteration of the loop over an _EnumModule
ParseEnum ==
    /\ pc = "parse"
    /\ Len(schema) < MaxDefs
    /\ \E t \in { u \in Undeclared : u.kind = "enum" } : \E m \in EnumModules(t) :
          /\ schema' = Append(schema, m)
          /\ enum_ids' = [i \in DOMAIN enum_ids \cup {m.id} |->
                              IF i = m.id THEN m.name ELSE enum_ids[i]]
          /\ nodes' = DictSet(nodes, m.name, EnumerantsContent(parse_enumerants(m.enumerants)))
    /\ UNCHANGED <<pc, struct_ids, gen, text, prevText, runs, stdout>>
    /\ UNCHANGED wrapperVars

\* Parser.parse: the loop ends, return self.nodes
ParseReturn ==
    /\ pc = "parse"
    /\ pc' = "init"
    /\ UNCHANGED <<schema, struct_ids, enum_ids, nodes, gen, text, prevText, runs, stdout>>
    /\ UNCHANGED wrapperVars

(***************************************************************************)
(* Texts.                                                                  *)
(***************************************************************************)
\* a + b of two strings
TextCat(a, b) ==
    SubSeq(a, 1, Len(a) - 1) \o <<a[Len(a)] \o b[1]>> \o SubSeq(b, 2, Len(b))

\* a string without a newline
Lit(s) == <<s>>

\* '\n'
NL == <<"", "">>

RECURSIVE Concat(_)
Concat(pieces) ==
    IF pieces = <<>> THEN Lit("") ELSE TextCat(Head(pieces), Concat(Tail(pieces)))

\* sep.join(items), the items strings without a newline
RECURSIVE Join(_, _)
Join(sep, items) ==
    IF items = <<>> THEN Lit("")
    ELSE IF Len(items) = 1 THEN Lit(items[1])
    ELSE Concat(<<Lit(items[1]), sep, Join(sep, Tail(items))>>)

Spaces(n) == [i \in 1..n |-> " "]

RECURSIVE Flat(_)
Flat(strs) == IF strs = <<>> THEN "" ELSE Head(strs) \o Flat(Tail(strs))

\* '\n' + 8 * ' '
MethodSep == TextCat(NL, Lit(Flat(Spaces(8))))

\* ',\n' + 4 * ' '
EnumerantSep == Concat(<<Lit(","), NL, Lit(Flat(Spaces(4)))>>)

(***************************************************************************)
(* Generator.                                                              *)
(***************************************************************************)
\* Generator.is_enum
is_enum(ns, node) == DictHas(ns, node) /\ DictGet(ns, node).tag = "list"

\* Generator.is_struct
is_struct(ns, node) == DictHas(ns, node) /\ DictGet(ns, node).tag = "dict"

\* Generator.is_basic_type
is_basic_type(node) == node \in DOMAIN CAPNP_BASIC_TYPES

\* the items of fields.items() that pass `if self.is_struct(type_)`
StructFields(ns, fields) == SelectSeq(fields, LAMBDA e : is_struct(ns, e.value))

\* the items of fields.items() that pass `if self.is_enum(type_)`
EnumFields(ns, fields) == SelectSeq(fields, LAMBDA e : is_enum(ns, e.value))

\* the items of fields.items() that pass `if self.is_basic_type(type_)`
BasicFields(fields) == SelectSeq(fields, LAMBDA e : is_basic_type(e.value))

\* a generated method: the identifier it declares and its source line
Method(name, line) == [name |-> name, text |-> line]

MethodTexts(methods) == [i \in 1..Len(methods) |-> methods[i].text]

\* Generator.generate_reader_constructors
generate_reader_constructors(name) ==
    << Method("Reader", "Reader(" \o BASE_NAMESPACE \o "::" \o name \o "::Reader r) : "
                        \o BASE_NAMESPACE \o "::" \o name \o "::Reader(r) {}"),
       Method("Reader", "Reader() = default;") >>

\* Generator.generate_builder_constructors
generate_builder_constructors(name) ==
    << Method("Builder", "Builder(" \o BASE_NAMESPACE \o "::" \o name \o "::Builder b) : "
                         \o BASE_NAMESPACE \o "::" \o name
                         \o "::Builder(b), Reader(b.asReader()) {}") >>

\* Generator.generate_builder_operators
generate_builder_operators ==
    << Method("operator->", "Builder* operator->() { return this; }"),
       Method("operator*", "Builder& operator*() { return *this; }") >>

\* Generator.generate_capnp_base_reader_method
generate_capnp_base_reader_method(name) ==
    Method("GetCapnpBase", "const " \o BASE_NAMESPACE \o "::" \o name
                           \o "::Reader& GetCapnpBase() const { return *this; }")

\* Generator.generate_capnp_base_builder_method
generate_capnp_base_builder_method(name) ==
    Method("GetCapnpBase", "const " \o BASE_NAMESPACE \o "::" \o name
                           \o "::Builder& GetCapnpBase() const { return *this; }")

\* Generator.generate_using_builder_methods
generate_using_builder_methods(ns, name, fields) ==
    LET kept == StructFields(ns, fields)
        using(field) == "using " \o BASE_NAMESPACE \o "::" \o name
                        \o "::Builder::get" \o field \o ";"
    IN Join(MethodSep, [i \in 1..Len(kept) |-> using(kept[i].key)])

\* the generated Has of a field of record type
HasOfStruct(name) ==
    Method("Has" \o name, "bool Has" \o name \o "() const { return has" \o name \o "(); }")

\* the generated Has of a field of enum type
HasOfEnum(name, type_) ==
    Method("Has" \o name, "bool Has" \o name \o "() const { return get" \o name \o "() != "
                          \o BASE_NAMESPACE \o "::" \o type_ \o "::NOT_SET; }")

\* the generated Has of a field of basic type
HasOfBasic(name) ==
    Method("Has" \o name, "bool Has" \o name \o "() const { return get" \o name \o "() != 0; }")

\* generate_has_methods without the list `basic`
generate_has_methods_no_basic(ns, struct_name) ==
    LET fields == DictGet(ns, struct_name).fields
        structs == StructFields(ns, fields)
        enums == EnumFields(ns, fields)
    IN [i \in 1..Len(structs) |-> HasOfStruct(structs[i].key)]
       \o [i \in 1..Len(enums) |-> HasOfEnum(enums[i].key, enums[i].value)]

\* Generator.generate_has_methods
generate_has_methods(ns, struct_name) ==
    LET fields == DictGet(ns, struct_name).fields
        structs == StructFields(ns, fields)
        enums == EnumFields(ns, fields)
        basics == BasicFields(fields)
    IN [i \in 1..Len(structs) |-> HasOfStruct(structs[i].key)]
       \o [i \in 1..Len(enums) |-> HasOfEnum(enums[i].key, enums[i].value)]
       \o [i \in 1..Len(basics) |-> HasOfBasic(basics[i].key)]

\* Generator.generate_get_methods
generate_get_methods(ns, struct_name) ==
    LET fields == DictGet(ns, struct_name).fields
        structs == StructFields(ns, fields)
        enums == EnumFields(ns, fields)
        basics == BasicFields(fields)
        template(name, type_) ==
            Method("Get" \o name,
                   type_ \o " Get" \o name \o "() const { return get" \o name \o "(); }")
        enum_template(name, type_) ==
            Method("Get" \o name,
                   type_ \o " Get" \o name \o "() const { return static_cast<" \o type_
                   \o ">(static_cast<size_t>(get" \o name \o "()) - 1); }")
    IN [i \in 1..Len(basics) |-> template(basics[i].key, CAPNP_BASIC_TYPES[basics[i].value])]
       \o [i \in 1..Len(structs) |-> template(structs[i].key, structs[i].value \o "::Reader")]
       \o [i \in 1..Len(enums) |-> enum_template(enums[i].key, enums[i].value)]

\* Generator.generate_set_methods
generate_set_methods(ns, struct_name) ==
    LET fields == DictGet(ns, struct_name).fields
        structs == StructFields(ns, fields)
        enums == EnumFields(ns, fields)
        basics == BasicFields(fields)
        basic_template(name, type_) ==
            Method("Set" \o name,
                   "void Set" \o name \o "(const " \o type_ \o "& value) { return set" \o name
                   \o "(value); }")
        struct_template(name, type_) ==
            Method("Set" \o name,
                   "void Set" \o name \o "(const " \o type_ \o "::Reader& value) { return set"
                   \o name \o "(value.GetCapnpBase()); }")
        enum_template(name, type_) ==
            Method("Set" \o name,
                   "void Set" \o name \o "(const " \o type_ \o "& value) { return set" \o name
                   \o "(static_cast<" \o BASE_NAMESPACE \o "::" \o type_
                   \o ">(static_cast<size_t>(value) + 1)); }")
    IN [i \in 1..Len(basics) |->
            basic_template(basics[i].key, CAPNP_BASIC_TYPES[basics[i].value])]
       \o [i \in 1..Len(structs) |-> struct_template(structs[i].key, structs[i].value)]
       \o [i \in 1..Len(enums) |-> enum_template(enums[i].key, enums[i].value)]

\* Generator.generate_mutable_methods
generate_mutable_methods(ns, struct_name) ==
    LET structs == StructFields(ns, DictGet(ns, struct_name).fields)
        mutable(name, type_) ==
            Method("Mutable" \o name,
                   type_ \o "::Builder Mutable" \o name \o "() { return get" \o name \o "(); }")
    IN [i \in 1..Len(structs) |-> mutable(structs[i].key, structs[i].value)]

\* the list `methods` of Generator.generate_reader
ReaderMethods(ns, name) ==
    generate_reader_constructors(name)
    \o generate_get_methods(ns, name)
    \o generate_has_methods(ns, name)
    \o <<generate_capnp_base_reader_method(name)>>

\* the list `methods` of Generator.generate_builder
BuilderMethods(ns, name) ==
    generate_builder_constructors(name)
    \o generate_builder_operators
    \o generate_set_methods(ns, name)
    \o generate_mutable_methods(ns, name)
    \o <<generate_capnp_base_builder_method(name)>>

\* Generator.generate_reader
generate_reader(ns, name, fields) == Join(MethodSep, MethodTexts(ReaderMethods(ns, name)))

\* Generator.generate_builder
generate_builder(ns, name, fields) == Join(MethodSep, MethodTexts(BuilderMethods(ns, name)))

\* Generator.generate_struct
generate_struct(ns, name, fields) ==
    Concat(<<
        NL, Lit("struct " \o name \o " {"),
        NL, Lit("    struct Reader : private " \o BASE_NAMESPACE \o "::" \o name \o "::Reader {"),
        NL, Lit("    public:"),
        NL, Lit("        "), generate_reader(ns, name, fields),
        NL, Lit("    };"),
        NL, Lit("    "),
        NL, Lit("    struct Builder : private " \o BASE_NAMESPACE \o "::" \o name
                \o "::Builder, public Reader {"),
        NL, Lit("    private:"),
        NL, Lit("        "), generate_using_builder_methods(ns, name, fields),
        NL, Lit("    public:"),
        NL, Lit("        "), generate_builder(ns, name, fields),
        NL, Lit("    };"),
        NL, Lit("};"),
        NL, Lit("            ") >>)

\* Generator.generate_enum
generate_enum(name, enumerants) ==
    Concat(<<
        NL, Lit("enum class " \o name \o " {"),
        NL, Lit("    "), Join(EnumerantSep, enumerants), Lit(","),
        NL, Lit("};"),
        NL, Lit("            ") >>)

\* Generator.generate: the loop over nodes.items(), res the text so far
RECURSIVE GenerateFrom(_, _, _)
GenerateFrom(ns, items, res) ==
    IF items = <<>>
    THEN res
    ELSE LET node == Head(items).key
             content == Head(items).value
         IN GenerateFrom(ns, Tail(items),
                TextCat(res, IF content.tag = "list"
                             THEN generate_enum(node, content.enumerants)
                             ELSE generate_struct(ns, node, content.fields)))

\* a generate that walks enum_names, then struct_names
generate_enums_first(ns, given) ==
    GenerateFrom(ns, SelectSeq(given, LAMBDA e : e.value.tag = "list")
                     \o SelectSeq(given, LAMBDA e : e.value.tag = "dict"), Lit(""))

\* Generator.generate
generate(ns, given) == GenerateFrom(ns, given, Lit(""))

\* the names Generator.__init__ keeps of the nodes with a content of one type
NamesOf(ns, tag) ==
    LET kept == SelectSeq(ns, LAMBDA e : e.value.tag = tag)
    IN [i \in 1..Len(kept) |-> kept[i].key]

\* g = Generator(nodes)
GeneratorInit ==
    /\ pc = "init"
    /\ gen' = [built |-> TRUE, enum_names |-> NamesOf(nodes, "list"),
               struct_names |-> NamesOf(nodes, "dict")]
    /\ pc' = "generate"
    /\ UNCHANGED <<schema, struct_ids, enum_ids, nodes, text, prevText, runs, stdout>>
    /\ UNCHANGED wrapperVars

\* a generate that empties the mapping it walks
Generate_consuming ==
    /\ pc \in {"generate", "print"}
    /\ runs < MaxRuns
    /\ text' = generate(nodes, nodes)
    /\ nodes' = <<>>
    /\ prevText' = text
    /\ runs' = runs + 1
    /\ pc' = "print"
    /\ UNCHANGED <<schema, struct_ids, enum_ids, gen, stdout>>
    /\ UNCHANGED wrapperVars

\* text = g.generate(nodes); a Generator can be asked again before printing
Generate ==
    /\ pc \in {"generate", "print"}
    /\ runs < MaxRuns
    /\ text' = generate(nodes, nodes)
    /\ prevText' = text
    /\ runs' = runs + 1
    /\ pc' = "print"
    /\ UNCHANGED <<schema, struct_ids, enum_ids, nodes, gen, stdout>>
    /\ UNCHANGED wrapperVars

\* print(text)
PrintText ==
    /\ pc = "print"
    /\ stdout' = Concat(<<stdout, text, NL>>)
    /\ pc' = "done"
    /\ UNCHANGED <<schema, struct_ids, enum_ids, nodes, gen, text, prevText, runs>>
    /\ UNCHANGED wrapperVars

(***************************************************************************)
(* The generated accessors of an enum-typed field, over the raw value of   *)
(* the base accessor (the ordinal of the enumerant in the schema's enum).  *)
(***************************************************************************)
\* the enumerant the base enum exposes as NOT_SET
NotSetName == [head |-> "n", tail |-> "otSet"]

\* the raw value of <BASE_NAMESPACE>::<type_>::NOT_SET
NotSetRaw(enumerants) ==
    (CHOOSE i \in 1..Len(enumerants) : enumerants[i] = NotSetName) - 1

\* Set<Field>(value): the raw value handed to set<Field>, a 16-bit enum
EnumSetRaw(value) == (value + 1) % 65536

\* a Get<Field>() without the - 1
EnumGetValue_no_offset(r) == r

\* Get<Field>(): static_cast<size_t>(get<Field>()) - 1 wraps at raw 0, and
\* the cast to the generated enum (an int) makes that -1
EnumGetValue(r) == IF r = 0 THEN -1 ELSE r - 1

\* Has<Field>()
EnumHas(r, enumerants) == r /= NotSetRaw(enumerants)

\* the values of the generated enum class: indices into its enumerant list
PublicValues(enumerants) == 0..(Len(parse_enumerants(enumerants)) - 1)

\* builder.Set<Field>(v)
CallSet ==
    /\ pc = "wrapper"
    /\ \E v \in PublicValues(wEnum) :
          /\ raw' = EnumSetRaw(v)
          /\ lastSet' = <<v>>
    /\ got' = <<>>
    /\ hasRes' = <<>>
    /\ UNCHANGED wEnum
    /\ UNCHANGED parserVars

\* reader.Get<Field>()
CallGet ==
    /\ pc = "wrapper"
    /\ got' = <<EnumGetValue(raw)>>
    /\ UNCHANGED <<wEnum, raw, lastSet, hasRes>>
    /\ UNCHANGED parserVars

\* reader.Has<Field>()
CallHas ==
    /\ pc = "wrapper"
    /\ hasRes' = <<EnumHas(raw, wEnum)>>
    /\ UNCHANGED <<wEnum, raw, lastSet, got>>
    /\ UNCHANGED parserVars

\* the wrapper is put over a message whose field holds the raw value r
BaseHolds ==
    /\ pc = "wrapper"
    /\ \E r \in 0..MaxRaw : raw' = r
    /\ lastSet' = <<>>
    /\ got' = <<>>
    /\ hasRes' = <<>>
    /\ UNCHANGED wEnum
    /\ UNCHANGED parserVars

NoText == <<>>
NoGenerator == [built |-> FALSE, enum_names |-> <<>>, struct_names |-> <<>>]
EmptyMap == [i \in {} |-> ""]

Init ==
    /\ pc = "parse"
    /\ schema = <<>>
    /\ struct_ids = EmptyMap
    /\ enum_ids = EmptyMap
    /\ nodes = <<>>
    /\ gen = NoGenerator
    /\ text = NoText
    /\ prevText = NoText
    /\ runs = 0
    /\ stdout = <<"">>
    /\ wEnum = <<>>
    /\ raw = 0
    /\ lastSet = <<>>
    /\ got = <<>>
    /\ hasRes = <<>>

Next == ParseStruct \/ ParseEnum \/ ParseReturn \/ GeneratorInit \/ Generate \/ PrintText

Spec == Init /\ [][Next]_vars

\* A struct with one enum-typed field has been generated and compiled (the
\* base enum has the NOT_SET the generated Has refers to); its builder is
\* over a fresh message, whose fields hold raw 0.
InitWrapper ==
    /\ pc = "wrapper"
    /\ schema = <<>>
    /\ struct_ids = EmptyMap
    /\ enum_ids = EmptyMap
    /\ nodes = <<>>
    /\ gen = NoGenerator
    /\ text = NoText
    /\ prevText = NoText
    /\ runs = 0
    /\ stdout = <<"">>
    /\ wEnum \in { es \in EnumerantLists : \E i \in 1..Len(es) : es[i] = NotSetName }
    /\ raw = 0
    /\ lastSet = <<>>
    /\ got = <<>>
    /\ hasRes = <<>>

NextWrapper == CallSet \/ CallGet \/ CallHas \/ BaseHolds

SpecWrapper == InitWrapper /\ [][NextWrapper]_vars
(***************************************************************************)
(* Properties.                                                             *)
(***************************************************************************)
Positions == 1..Len(schema)

\* the iteration over module i has ended without raising
Succeeded(i) == i < Len(schema) \/ pc /= "failed"

\* Parser.parse has returned
Resolved == pc \in {"init", "generate", "print", "done"}

StructPositions == { i \in Positions : schema[i].kind = "struct" }
EnumPositions == { i \in Positions : schema[i].kind = "enum" }

\* the ids of the definitions declared before position i
IdsBefore(i) == { schema[j].id : j \in 1..(i - 1) }

\* the name of the declared definition with the id
NameOfId(id) == schema[CHOOSE j \in Positions : schema[j].id = id].name

\* the capitalized name: first character upper-cased, the rest unchanged
Capitalized(n) == upper(n.head) \o n.tail

Max(a, b) == IF a > b THEN a ELSE b

\* C1: the enumerants stored for an enum [X0, X1, ..., Xn] and the members
\* of its generated enum class are exactly the capitalized X1, ..., Xn in
\* declaration order, Xi at zero-based position i-1; X0 is dropped.
C1_EnumDropsFirstOnly ==
    \A i \in EnumPositions :
        LET es == schema[i].enumerants
            name == schema[i].name
            expected == [j \in 1..(Len(es) - 1) |-> Capitalized(es[j + 1])]
        IN /\ DictHas(nodes, name)
           /\ DictGet(nodes, name).tag = "list"
           /\ DictGet(nodes, name).enumerants = expected
           /\ runs >= 1 =>
                \E h \in 1..Len(text) :
                    /\ text[h] = "enum class " \o name \o " {"
                    /\ IF expected = <<>>
                       THEN text[h + 1] = "    ,"
                       ELSE \A j \in 1..Len(expected) :
                                text[h + j] = "    " \o expected[j] \o ","
                    /\ text[h + Max(1, Len(expected)) + 1] = "};"

C1_Witness ==
    /\ runs >= 1
    /\ \E i \in EnumPositions : Len(schema[i].enumerants) >= 3

\* C2: after Set<Field>(v) with a valid public value v the base accessor
\* holds v + 1, the ordinal in the schema's enum of the enumerant that v
\* names, and a Get<Field>() called afterwards returns v.
C2_SetGetRoundTrip ==
    lastSet /= <<>> =>
        /\ raw = lastSet[1] + 1
        /\ Capitalized(wEnum[raw + 1]) = parse_enumerants(wEnum)[lastSet[1] + 1]
        /\ got /= <<>> => got[1] = lastSet[1]

C2_Witness == lastSet /= <<>> /\ got /= <<>> /\ lastSet[1] >= 1

\* C3: Has<Field>() is false exactly when the raw value is 0.
C3_HasFalseExactlyAtZero ==
    hasRes /= <<>> => (hasRes[1] <=> raw /= 0)

\* a field's type refers to a record or enum id, directly or as list element
RefersTo(type) ==
    CASE type.which \in {"struct", "enum"} -> {type.typeId}
      [] type.which = "list" /\ type.elemWhich \in {"struct", "enum"} -> {type.elemTypeId}
      [] OTHER -> {}

\* the references of a field's type that the resolver looks up
LooksUp(type) ==
    CASE type.which \in {"struct", "enum"} -> {type.typeId}
      [] type.which = "list" /\ type.elemWhich = "struct" -> {type.elemTypeId}
      [] OTHER -> {}

NothingEmitted == text = NoText /\ stdout = <<"">> /\ runs = 0 /\ ~gen.built

\* C4 as stated: a field, or a list element, that refers to a record or enum
\* id absent from struct_ids / enum_ids when it is resolved makes parse fail.
C4_AnyUnregisteredReferenceFails ==
    [][schema' /= schema =>
         LET m == schema'[Len(schema')]
         IN (\E k \in 1..Len(m.fields) :
                RefersTo(m.fields[k].type) \ (DOMAIN struct_ids' \cup DOMAIN enum_ids') /= {})
            => pc' = "failed"]_vars

\* C4 amended: a field that refers to a record or enum id, or a list element
\* that refers to a record id, absent from the id index when it is resolved
\* makes parse fail; after a failure nothing is generated or printed.
C4_LookedUpReferenceFails ==
    [][/\ pc /= "failed"
       /\ schema' /= schema =>
            LET m == schema'[Len(schema')]
            IN (\E k \in 1..Len(m.fields) :
                   LooksUp(m.fields[k].type) \ (DOMAIN struct_ids' \cup DOMAIN enum_ids') /= {})
               => (pc' = "failed" /\ NothingEmitted')]_vars

C4_Witness ==
    /\ pc = "failed"
    /\ Len(schema) = 2
    /\ \E k \in 1..Len(schema[2].fields) :
          /\ schema[2].fields[k].type.which = "list"
          /\ schema[2].fields[k].type.elemWhich = "struct"
          /\ schema[2].fields[k].type.elemTypeId \notin DOMAIN struct_ids

\* C5: a list-typed field resolves to List(E), E the name of the record the
\* element refers to when the element is a record, and otherwise the kind
\* tag of the element unchanged (for an enum element too).
C5_ListOneLevel ==
    \A i \in StructPositions : Succeeded(i) =>
        \A k \in 1..Len(schema[i].fields) :
            LET f == schema[i].fields[k]
                resolved == DictGet(DictGet(nodes, schema[i].name).fields, Capitalized(f.name))
            IN f.type.which = "list" =>
                 resolved = "List(" \o (IF f.type.elemWhich = "struct"
                                        THEN NameOfId(f.type.elemTypeId)
                                        ELSE f.type.elemWhich) \o ")"

C5_Witness ==
    \E i \in StructPositions :
        /\ Succeeded(i)
        /\ \E k \in 1..Len(schema[i].fields) :
              /\ schema[i].fields[k].type.which = "list"
              /\ schema[i].fields[k].type.elemWhich = "struct"
              /\ schema[i].fields[k].type.elemTypeId /= schema[i].id
        /\ \E k \in 1..Len(schema[i].fields) :
              /\ schema[i].fields[k].type.which = "list"
              /\ schema[i].fields[k].type.elemWhich = "enum"

\* the first line of a block of the generated text
IsBlockHeader(line) ==
    \E t \in TopLevelTypes :
        line = "enum class " \o t.name \o " {" \/ line = "struct " \o t.name \o " {"

\* C6: the resolved mapping holds the parsed definitions in the order of the
\* iteration, and the generated text has exactly one block per entry of the
\* mapping, an enum block or a struct block by its content, in that order.
C6_OneBlockPerTypeInOrder ==
    /\ DictKeys(nodes) =
           [i \in 1..(Len(schema) - (IF pc = "failed" THEN 1 ELSE 0)) |-> schema[i].name]
    /\ runs >= 1 =>
           SelectSeq(text, IsBlockHeader) =
               [i \in 1..Len(nodes) |->
                    IF nodes[i].value.tag = "list"
                    THEN "enum class " \o nodes[i].key \o " {"
                    ELSE "struct " \o nodes[i].key \o " {"]

C6_Witness ==
    /\ runs >= 1
    /\ Len(nodes) >= 2
    /\ nodes[1].value.tag = "dict"
    /\ nodes[2].value.tag = "list"

\* C7: a call of generate leaves the resolved mapping and the generator as
\* they were, and a call after the first returns the text the call before
\* it returned.
C7_GenerateRepeatable ==
    [][runs' = runs + 1 =>
         /\ nodes' = nodes
         /\ gen' = gen
         /\ runs >= 1 => text' = text]_vars

C7_Witness == runs >= 2 /\ Len(nodes) >= 2 /\ text = prevText

\* the methods of the list that declare the identifier
Declaring(methods, name) == { k \in 1..Len(methods) : methods[k].name = name }

AccessorCounts(i, k) ==
    LET S == schema[i].name
        F == Capitalized(schema[i].fields[k].name)
    IN << Cardinality(Declaring(ReaderMethods(nodes, S), "Get" \o F)),
          Cardinality(Declaring(ReaderMethods(nodes, S), "Has" \o F)),
          Cardinality(Declaring(BuilderMethods(nodes, S), "Set" \o F)) >>

\* C8 as stated: every field of every record, a list-typed one too, has
\* exactly one Get and one Has in the Reader and one Set in the Builder.
C8_EveryFieldHasAccessors ==
    Resolved =>
        \A i \in StructPositions : \A k \in 1..Len(schema[i].fields) :
            AccessorCounts(i, k) = <<1, 1, 1>>

\* C8 amended: a field of primitive, record or enum kind has exactly one Get
\* and one Has in the Reader and one Set in the Builder; a list-typed field
\* has none of them.
C8_NonListFieldsHaveAccessors ==
    Resolved =>
        \A i \in StructPositions : \A k \in 1..Len(schema[i].fields) :
            AccessorCounts(i, k) =
                IF schema[i].fields[k].type.which = "list" THEN <<0, 0, 0>> ELSE <<1, 1, 1>>

C8_Witness ==
    /\ Resolved
    /\ \E i \in StructPositions :
          /\ Len(schema[i].fields) = 2
          /\ schema[i].fields[1].type.which = "enum"
          /\ schema[i].fields[2].type.which = "list"

\* C9: a record is in struct_ids when its own fields are resolved, so a
\* record with record- or enum-typed fields resolves exactly when each of
\* them refers to the record itself or to a definition declared before it;
\* no two records that refer to each other are both resolved.
C9_ResolvesSelfAndEarlierOnly ==
    /\ \A i \in StructPositions :
          Succeeded(i) <=>
              \A k \in 1..Len(schema[i].fields) :
                  LooksUp(schema[i].fields[k].type) \subseteq IdsBefore(i) \cup {schema[i].id}
    /\ \A i, j \in StructPositions :
          /\ i /= j
          /\ \E k \in 1..Len(schema[i].fields) :
                 schema[i].fields[k].type.which = "struct"
                 /\ schema[i].fields[k].type.typeId = schema[j].id
          /\ \E k \in 1..Len(schema[j].fields) :
                 schema[j].fields[k].type.which = "struct"
                 /\ schema[j].fields[k].type.typeId = schema[i].id
          => ~(Succeeded(i) /\ Succeeded(j))

C9_Witness ==
    /\ Len(schema) = 2
    /\ Succeeded(2)
    /\ schema[2].kind = "struct"
    /\ Len(schema[2].fields) = 2
    /\ schema[2].fields[1].type.which = "struct"
    /\ schema[2].fields[1].type.typeId = schema[2].id
    /\ schema[2].fields[2].type.which = "struct"
    /\ schema[2].fields[2].type.typeId = schema[1].id

\* C10: once parse has returned, the type of every record-typed field is a
\* key of the mapping with a field map, the type of every enum-typed field
\* is a key with an enumerant list, and the record named inside a List(...)
\* type is a key with a field map; the generator takes each record- or
\* enum-typed field for exactly one of record, enum.
C10_NoDanglingTypeNames ==
    Resolved =>
        \A n \in 1..Len(nodes) : nodes[n].value.tag = "dict" =>
            \A k \in 1..Len(nodes[n].value.fields) :
                LET T == nodes[n].value.fields[k].value
                    type == schema[n].fields[k].type
                    tagOf(name) == { nodes[x].value.tag : x \in { y \in 1..Len(nodes) : nodes[y].key = name } }
                IN /\ type.which = "struct" =>
                        tagOf(T) = {"dict"} /\ is_struct(nodes, T) /\ ~is_enum(nodes, T)
                   /\ type.which = "enum" =>
                        tagOf(T) = {"list"} /\ is_enum(nodes, T) /\ ~is_struct(nodes, T)
                   /\ type.which \in {"struct", "enum"} => ~is_basic_type(T)
                   /\ type.which = "list" /\ type.elemWhich = "struct" =>
                        \E x \in 1..Len(nodes) :
                            T = "List(" \o nodes[x].key \o ")" /\ nodes[x].value.tag = "dict"

C10_Witness ==
    /\ Resolved
    /\ Len(nodes) = 2
    /\ nodes[1].value.tag = "list"
    /\ nodes[2].value.tag = "dict"
    /\ Len(schema[2].fields) = 2
    /\ schema[2].fields[1].type.which = "enum"
    /\ schema[2].fields[2].type.which = "list"
    /\ schema[2].fields[2].type.elemWhich = "struct"
====
